---------------------------- MODULE Spec2Model ----------------------------
(***************************************************************************)
(* A model of the bbl pipeline: the type checker                           *)
(* (frontend/src/typeck.rs), the code generator (backend/src/codegen.rs)   *)
(* and the block assembler (cpp_codegen/src/lib.rs).                       *)
(*                                                                         *)
(* Spec     : a TypeChecker object and calls of its public check_expr and  *)
(*            check_program.                                               *)
(* SpecGen  : a process that calls generate, one invocation after another. *)
(* SpecConc : two invocations of generate that run concurrently and share  *)
(*            the static COUNTER of generate_variable_name.                *)
(***************************************************************************)
EXTENDS Integers, Sequences, FiniteSets, TLC

VARIABLES
    symbol_table,     \* TypeChecker.symbol_table : HashMap<String, Type>
    last,             \* the last call made on the TypeChecker and its result
    COUNTER,          \* static mut COUNTER : u32 of generate_variable_name
    run,              \* the last invocation of generate and what it returned
    runs,             \* number of invocations of generate made by the process
    pc,               \* SpecConc: position of each concurrent invocation
    reg,              \* SpecConc: value an invocation loaded from COUNTER
    job,              \* SpecConc: the program each invocation lowers
    todo,             \* SpecConc: calls of generate_variable_name still to make
    names             \* SpecConc: names each invocation has minted so far

vars == <<symbol_table, last, COUNTER, run, runs, pc, reg, job, todo, names>>
typeckVars == <<symbol_table, last>>
genVars == <<COUNTER, run, runs>>
concVars == <<pc, reg, job, todo, names>>

-----------------------------------------------------------------------------
(* Bounds of the model. *)

\* longest function body / block the type checker is given
MaxBody == 2
\* invocations of generate one process makes in SpecGen
MaxRuns == 3
\* largest iteration count of a rep the generator is given
MaxCount == 2
\* deepest nesting of if and rep blocks the generator is given
MaxDepth == 2

-----------------------------------------------------------------------------
(* ast::Type *)

TInt    == [tag |-> "Int"]
TFloat  == [tag |-> "Float"]
TString == [tag |-> "String"]
TBool   == [tag |-> "Bool"]
TNone   == [tag |-> "None"]
TList(t) == [tag |-> "List", elem |-> t]
TFunctionType(args, ret) == [tag |-> "FunctionType", args |-> args, ret |-> ret]

(* ast::Expr, one constructor per variant *)

Integer(v)    == [kind |-> "Integer", value |-> v]
FloatLit      == [kind |-> "Float", value |-> "1.5"]
StringLit     == [kind |-> "String", value |-> "a"]
Boolean       == [kind |-> "Boolean"]
NoneExpr      == [kind |-> "NoneExpr"]
Identifier(n) == [kind |-> "Identifier", value |-> n]
TypedIdentifier(n, t) == [value |-> n, associated_type |-> t]
AssignmentExpr(n, t, v) ==
    [kind |-> "AssignmentExpr", target |-> TypedIdentifier(n, t), value |-> v]
ReassignmentExpr(n, v) == [kind |-> "ReassignmentExpr", target |-> n, value |-> v]
BinOp(op, l, r) == [kind |-> "BinOp", op |-> op, left |-> l, right |-> r]
UnOp(op, a)     == [kind |-> "UnOp", op |-> op, arg |-> a]
ListExpr(es)    == [kind |-> "ListExpr", elems |-> es]
PrintExpr(a)    == [kind |-> "PrintExpr", arg |-> a]
IfExpr(c, t)    == [kind |-> "IfExpr", condition |-> c, then_block |-> t,
                    has_else |-> FALSE, else_block |-> <<>>]
IfElseExpr(c, t, e) == [kind |-> "IfExpr", condition |-> c, then_block |-> t,
                        has_else |-> TRUE, else_block |-> e]
RepExpr(n, b)   == [kind |-> "RepExpr", num_iterations |-> n, body |-> b]
FunctionDef(args, b) == [kind |-> "FunctionDef", args |-> args, body |-> b]
ReturnExpr(v)   == [kind |-> "ReturnExpr", value |-> v]
MethodCallExpr(m, args) == [kind |-> "MethodCallExpr", method_name |-> m, args |-> args]

-----------------------------------------------------------------------------
(* TypeResult<Type>: Ok(type) or Err(TypeError { message }).  A message is  *)
(* kept as the text of its format string, without the interpolated values. *)

Ok(t)  == [ok |-> TRUE,  ty |-> t,     message |-> ""]
Err(m) == [ok |-> FALSE, ty |-> TNone, message |-> m]

MsgUndefined       == "Undefined variable"
MsgAssignMismatch  == "Type mismatch in assignment"
MsgReassignMismatch == "Type mismatch in reassignment"
MsgBinOpMismatch   == "Type mismatch in binary operation"
MsgNotSupported    == "Operator not supported for type"
MsgUnknownOperator == "Unknown operator"
MsgListMismatch    == "List elements have mismatched types"
MsgCondition       == "Condition in if expression must be boolean"
MsgRepCount        == "rep count must be int"
MsgUnaryNotSupported == "Unary operator not supported for type"
MsgUnknownUnary    == "Unknown unary operator"
MsgMethodCall      == "Method calls not supported in type checker yet"

\* The error kind a message stands for.
ErrorKind(m) ==
    CASE m = MsgUndefined -> "UndefinedVariable"
      [] m \in {MsgAssignMismatch, MsgReassignMismatch, MsgBinOpMismatch, MsgListMismatch}
            -> "TypeMismatch"
      [] m \in {MsgNotSupported, MsgUnaryNotSupported} -> "UnsupportedOperator"
      [] m \in {MsgUnknownOperator, MsgUnknownUnary} -> "UnknownOperator"
      [] m = MsgCondition -> "InvalidCondition"
      [] m = MsgRepCount -> "InvalidLoopCount"
      [] m = MsgMethodCall -> "UnsupportedConstruct"
      [] OTHER -> "None"

\* HashMap::insert
Insert(tab, n, t) == [k \in (DOMAIN tab) \cup {n} |-> IF k = n THEN t ELSE tab[k]]
EmptyTable == [k \in {} |-> TNone]

\* the outcome of check_expr: its result and the symbol table it leaves
Outcome(r, tab) == [res |-> r, tab |-> tab]

\* a faulty check_assignment: the name is inserted before the types are compared
check_assignment_mutant(tab, target, rhs_type) ==
    IF rhs_type # target.associated_type
    THEN Outcome(Err(MsgAssignMismatch), Insert(tab, target.value, target.associated_type))
    ELSE Outcome(Ok(target.associated_type),
                 Insert(tab, target.value, target.associated_type))
\* Expr::AssignmentExpr, after the value checked to rhs_type
check_assignment(tab, target, rhs_type) ==
    LET lhs_type == target.associated_type IN
    IF rhs_type # lhs_type
    THEN Outcome(Err(MsgAssignMismatch), tab)
    ELSE Outcome(Ok(lhs_type), Insert(tab, target.value, lhs_type))

\* a faulty check_reassignment: an unbound target is bound, not refused
check_reassignment_mutant(tab, target, rhs_type) ==
    IF target \notin DOMAIN tab
    THEN Outcome(Ok(rhs_type), Insert(tab, target, rhs_type))
    ELSE IF tab[target] # rhs_type
         THEN Outcome(Err(MsgReassignMismatch), tab)
         ELSE Outcome(Ok(tab[target]), tab)
\* Expr::ReassignmentExpr, after the value checked to rhs_type
check_reassignment(tab, target, rhs_type) ==
    IF target \notin DOMAIN tab
    THEN Outcome(Err(MsgUndefined), tab)
    ELSE IF tab[target] # rhs_type
         THEN Outcome(Err(MsgReassignMismatch), tab)
         ELSE Outcome(Ok(tab[target]), tab)

ArithmeticOps == {"+", "-", "*", "/"}
ComparisonOps == {"==", "!=", "<", ">", "<=", ">="}

\* a faulty check_binop: arithmetic is accepted for every operand type
check_binop_mutant(op, left_type, right_type) ==
    IF left_type # right_type THEN Err(MsgBinOpMismatch)
    ELSE IF op \in ArithmeticOps THEN Ok(left_type)
    ELSE IF op \in ComparisonOps THEN Ok(TBool)
    ELSE Err(MsgUnknownOperator)
\* Expr::BinOp, after the operands checked to left_type and right_type
check_binop(op, left_type, right_type) ==
    IF left_type # right_type THEN Err(MsgBinOpMismatch)
    ELSE IF op \in ArithmeticOps
         THEN IF left_type = TInt \/ left_type = TFloat
              THEN Ok(left_type) ELSE Err(MsgNotSupported)
    ELSE IF op \in ComparisonOps THEN Ok(TBool)
    ELSE Err(MsgUnknownOperator)

\* Expr::UnOp, after the operand checked to arg_type
check_unop(op, arg_type) ==
    IF op = "-"
    THEN IF arg_type = TInt \/ arg_type = TFloat
         THEN Ok(arg_type) ELSE Err(MsgUnaryNotSupported)
    ELSE IF op = "!"
         THEN IF arg_type = TBool THEN Ok(TBool) ELSE Err(MsgUnaryNotSupported)
    ELSE Err(MsgUnknownUnary)

\* Expr::FunctionDef: the loop that inserts the arguments
RECURSIVE insert_args(_, _)
insert_args(tab, args) ==
    IF args = <<>> THEN tab
    ELSE insert_args(Insert(tab, Head(args).value, Head(args).associated_type), Tail(args))

\* a faulty restore_table: the table of the body is kept
restore_table_mutant(old_table, body_table) == body_table
\* Expr::FunctionDef: the table left when the body has checked
restore_table(old_table, body_table) == old_table

ArgTypes(args) == [i \in 1..Len(args) |-> args[i].associated_type]

RECURSIVE check_expr(_, _), check_seq(_, _), check_list(_, _, _)

\* TypeChecker::check_expr on the table tab
check_expr(tab, e) ==
    CASE e.kind = "Integer" -> Outcome(Ok(TInt), tab)
      [] e.kind = "Float"   -> Outcome(Ok(TFloat), tab)
      [] e.kind = "String"  -> Outcome(Ok(TString), tab)
      [] e.kind = "Boolean" -> Outcome(Ok(TBool), tab)
      [] e.kind = "Identifier" ->
            IF e.value \in DOMAIN tab
            THEN Outcome(Ok(tab[e.value]), tab)
            ELSE Outcome(Err(MsgUndefined), tab)
      [] e.kind = "AssignmentExpr" ->
            LET v == check_expr(tab, e.value) IN
            IF ~v.res.ok THEN v
            ELSE check_assignment(v.tab, e.target, v.res.ty)
      [] e.kind = "ReassignmentExpr" ->
            LET v == check_expr(tab, e.value) IN
            IF ~v.res.ok THEN v
            ELSE check_reassignment(v.tab, e.target, v.res.ty)
      [] e.kind = "BinOp" ->
            LET l == check_expr(tab, e.left) IN
            IF ~l.res.ok THEN l
            ELSE LET r == check_expr(l.tab, e.right) IN
                 IF ~r.res.ok THEN r
                 ELSE Outcome(check_binop(e.op, l.res.ty, r.res.ty), r.tab)
      [] e.kind = "ListExpr" ->
            check_list(tab, e.elems, [some |-> FALSE, ty |-> TNone])
      [] e.kind = "PrintExpr" ->
            LET a == check_expr(tab, e.arg) IN
            IF ~a.res.ok THEN a ELSE Outcome(Ok(TNone), a.tab)
      [] e.kind = "IfExpr" ->
            LET c == check_expr(tab, e.condition) IN
            IF ~c.res.ok THEN c
            ELSE IF c.res.ty # TBool THEN Outcome(Err(MsgCondition), c.tab)
            ELSE LET t == check_seq(c.tab, e.then_block) IN
                 IF ~t.res.ok THEN t
                 ELSE IF e.has_else
                      THEN LET x == check_seq(t.tab, e.else_block) IN
                           IF ~x.res.ok THEN x ELSE Outcome(Ok(TNone), x.tab)
                      ELSE Outcome(Ok(TNone), t.tab)
      [] e.kind = "RepExpr" ->
            LET c == check_expr(tab, e.num_iterations) IN
            IF ~c.res.ok THEN c
            ELSE IF c.res.ty # TInt THEN Outcome(Err(MsgRepCount), c.tab)
            ELSE LET b == check_seq(c.tab, e.body) IN
                 IF ~b.res.ok THEN b ELSE Outcome(Ok(TNone), b.tab)
      [] e.kind = "FunctionDef" ->
            LET old_table == tab
                b == check_seq(insert_args(tab, e.args), e.body) IN
            IF ~b.res.ok THEN b
            ELSE Outcome(Ok(TFunctionType(ArgTypes(e.args), TNone)),
                         restore_table(old_table, b.tab))
      [] e.kind = "ReturnExpr" -> check_expr(tab, e.value)
      [] e.kind = "UnOp" ->
            LET a == check_expr(tab, e.arg) IN
            IF ~a.res.ok THEN a ELSE Outcome(check_unop(e.op, a.res.ty), a.tab)
      [] e.kind = "NoneExpr" -> Outcome(Ok(TNone), tab)
      [] e.kind = "MethodCallExpr" -> Outcome(Err(MsgMethodCall), tab)

\* `for expr in block { self.check_expr(expr)?; }`
check_seq(tab, es) ==
    IF es = <<>> THEN Outcome(Ok(TNone), tab)
    ELSE LET h == check_expr(tab, Head(es)) IN
         IF ~h.res.ok THEN h ELSE check_seq(h.tab, Tail(es))

\* Expr::ListExpr: the loop over the elements, elem_type : Option<Type>
check_list(tab, elems, elem_type) ==
    IF elems = <<>>
    THEN Outcome(Ok(TList(IF elem_type.some THEN elem_type.ty ELSE TNone)), tab)
    ELSE LET t == check_expr(tab, Head(elems)) IN
         IF ~t.res.ok THEN t
         ELSE IF elem_type.some
              THEN IF elem_type.ty # t.res.ty
                   THEN Outcome(Err(MsgListMismatch), t.tab)
                   ELSE check_list(t.tab, Tail(elems), elem_type)
              ELSE check_list(t.tab, Tail(elems), [some |-> TRUE, ty |-> t.res.ty])

\* TypeChecker::check_program
check_program(tab, program) ==
    LET r == check_seq(tab, program) IN
    Outcome(IF r.res.ok THEN Ok(TNone) ELSE r.res, r.tab)


-----------------------------------------------------------------------------
(* The expressions the type checker is called on. *)

Names == {"x", "y"}
DeclTypes == {TInt, TString, TBool}
Ops == ArithmeticOps \cup ComparisonOps \cup {"%"}
UnaryOps == {"-", "!", "~"}

Lits == {Integer(1), FloatLit, StringLit, Boolean}
Atoms == Lits \cup {Identifier(n) : n \in Names}
LeftOperands  == {Integer(1), FloatLit, Identifier("x"), ListExpr(<<>>)}
RightOperands == {FloatLit, Identifier("y"), ListExpr(<<>>)}
BinOps == {BinOp(op, l, r) : op \in Ops, l \in LeftOperands, r \in RightOperands}
UnOps  == {UnOp(op, a) : op \in UnaryOps, a \in Lits \cup {Identifier("x")}}

\* the literal of a declared type
LitOf(t) == CHOOSE v \in Lits : \/ t = TInt /\ v.kind = "Integer"
                                \/ t = TString /\ v.kind = "String"
                                \/ t = TBool /\ v.kind = "Boolean"
\* well typed bindings of a literal
LitAssigns == {AssignmentExpr(n, t, LitOf(t)) : n \in Names, t \in DeclTypes}
\* value expressions: well typed, ill typed, undefined names, nested bindings
Values == Atoms
          \cup {BinOp("+", Integer(1), StringLit)}
          \cup LitAssigns
          \cup {IfExpr(Boolean, <<a>>) : a \in LitAssigns}
Assigns   == {AssignmentExpr(n, t, v) : n \in Names, t \in DeclTypes, v \in Values}
Reassigns == {ReassignmentExpr(n, v) : n \in Names, v \in Values}

\* what a function body or a block is made of
BodyExprs ==
    {AssignmentExpr("x", TString, StringLit), AssignmentExpr("y", TInt, Identifier("x")),
     ReassignmentExpr("x", Integer(1)), Identifier("y")}
RECURSIVE SeqsUpTo(_, _)
SeqsUpTo(S, n) ==
    IF n = 0 THEN {<<>>}
    ELSE LET shorter == SeqsUpTo(S, n - 1) IN
         shorter \cup {<<e>> \o s : e \in S, s \in {q \in shorter : Len(q) = n - 1}}
Bodies == SeqsUpTo(BodyExprs, MaxBody)
ArgLists ==
    {<<>>, <<TypedIdentifier("x", TInt)>>,
     <<TypedIdentifier("x", TInt), TypedIdentifier("y", TBool)>>}
FunctionDefs == {FunctionDef(a, b) : a \in ArgLists, b \in Bodies}

Conditions == {Boolean, Integer(1), Identifier("x")}
Blocks1 == SeqsUpTo(BodyExprs, 1)
Ifs  == {IfExpr(c, b) : c \in Conditions, b \in Blocks1}
        \cup {IfElseExpr(c, b, <<Identifier("y")>>) : c \in Conditions, b \in Blocks1}
Reps == {RepExpr(c, b) : c \in Conditions, b \in Blocks1}
Others == Atoms \cup {NoneExpr, MethodCallExpr("m", <<>>), ListExpr(<<>>),
                      ListExpr(<<Integer(1), Integer(1)>>),
                      ListExpr(<<Integer(1), Integer(1), StringLit>>),
                      PrintExpr(Identifier("x")), PrintExpr(StringLit),
                      ReturnExpr(Identifier("x"))}

\* the programs check_program is called on
ProgramExprs == BodyExprs \cup {FunctionDef(<<TypedIdentifier("x", TInt)>>,
                                            <<AssignmentExpr("y", TInt, Identifier("x"))>>)}
Programs == {p \in SeqsUpTo(ProgramExprs, 2) : Len(p) = 2}

-----------------------------------------------------------------------------
(* The type checker as a state machine. *)

InitTypeck ==
    /\ symbol_table = EmptyTable
    /\ last = [op |-> "new"]

\* TypeChecker::new
New ==
    /\ symbol_table' = EmptyTable
    /\ last' = [op |-> "new"]
    /\ UNCHANGED <<genVars, concVars>>

\* one call of the public check_expr on the checker
Call(e) ==
    LET o == check_expr(symbol_table, e) IN
    /\ symbol_table' = o.tab
    /\ last' = [op |-> "check_expr", pre |-> symbol_table, expr |-> e, res |-> o.res]
    /\ UNCHANGED <<genVars, concVars>>

CheckAssignment   == \E e \in Assigns : Call(e)
CheckReassignment == \E e \in Reassigns : Call(e)
CheckBinOp        == \E e \in BinOps : Call(e)
CheckUnOp         == \E e \in UnOps : Call(e)
CheckFunctionDef  == \E e \in FunctionDefs : Call(e)
CheckIf           == \E e \in Ifs : Call(e)
CheckRep          == \E e \in Reps : Call(e)
CheckOther        == \E e \in Others : Call(e)

\* one call of check_program on the checker
CheckProgram ==
    \E p \in Programs :
        LET o == check_program(symbol_table, p) IN
        /\ symbol_table' = o.tab
        /\ last' = [op |-> "check_program", pre |-> symbol_table, expr |-> p,
                    res |-> o.res]
        /\ UNCHANGED <<genVars, concVars>>

NextTypeck ==
    \/ New
    \/ CheckAssignment
    \/ CheckReassignment
    \/ CheckBinOp
    \/ CheckUnOp
    \/ CheckFunctionDef
    \/ CheckIf
    \/ CheckRep
    \/ CheckOther
    \/ CheckProgram

-----------------------------------------------------------------------------
(* cpp_codegen: Line, Block and Program.  A Statement's text is kept as    *)
(* the format string that built it together with the values interpolated;  *)
(* pre_block : Option<String> is <<>> for None and <<s>> for Some(s).       *)

Statement(text) == [line |-> "Statement", text |-> text]
BlockLine(b)    == [line |-> "Block", block |-> b]

\* Block::new
Block_new == [pre_block |-> <<>>, statements |-> <<>>, indent_level |-> 0]
\* Block::new_with_pre_block
Block_new_with_pre_block(pre_block, indent_level) ==
    [pre_block |-> <<pre_block>>, statements |-> <<>>, indent_level |-> indent_level]
\* Program::new
Program_new == Block_new_with_pre_block("void solve() ", 0)

\* the names of the emitted text: var_N and the identifiers passed through
VarName(n)  == [var |-> n]
UserName(s) == [id |-> s]

\* what stands to the right of `=` in a declaration or an assignment
LitValue(v)       == [rhs |-> "literal", value |-> v]
TextValue(v)      == [rhs |-> "text", value |-> v]
QuotedValue(v)    == [rhs |-> "quoted", value |-> v]
NameValue(n)      == [rhs |-> "name", name |-> n]
BinValue(op, l, r) == [rhs |-> "binop", op |-> op, left |-> l, right |-> r]
UnValue(op, a)    == [rhs |-> "unop", op |-> op, arg |-> a]
ListValue(ns)     == [rhs |-> "list", elems |-> ns]

\* "{} {} = {};"
Decl(ty, n, v) == [stmt |-> "decl", ty |-> ty, name |-> n, init |-> v]
\* "{} = {};"
Assign(n, v)   == [stmt |-> "assign", name |-> n, init |-> v]
\* "cout << {} << endl;"
Cout(n)        == [stmt |-> "cout", arg |-> n]
\* "if ({}) {{"
IfOpen(n)      == [stmt |-> "if", cond |-> n]
\* "} else {"
ElseOpen       == [stmt |-> "else"]
\* "}"
Close          == [stmt |-> "close"]
\* "for(int {} = 0; {} < {}; {}++) {{"
ForOpen(i, c)  == [stmt |-> "for", iter |-> i, count |-> c]
\* "{}.{}({});"
MethodCall(m, args) == [stmt |-> "call", object |-> m, method |-> m, args |-> args]

-----------------------------------------------------------------------------
(* backend/src/codegen.rs.  A lowering state is the block being filled     *)
(* (context), the static COUNTER, the names minted so far by this          *)
(* invocation, and whether the invocation has panicked.                    *)

Lowering(block, counter, minted, panicked) ==
    [block |-> block, counter |-> counter, minted |-> minted, panicked |-> panicked]

\* a faulty generate_variable_name: the counter is bumped only when it is odd
generate_variable_name_mutant(S) ==
    IF S.panicked THEN S
    ELSE [S EXCEPT !.counter = IF @ % 2 = 0 THEN @ ELSE @ + 1,
                   !.minted = Append(@, VarName(IF S.counter % 2 = 0
                                                THEN S.counter ELSE S.counter + 1))]
\* generate_variable_name: COUNTER += 1; format!("var_{}", COUNTER).
\* COUNTER is a u32; the specifications keep it far below u32::MAX.
generate_variable_name(S) ==
    IF S.panicked THEN S
    ELSE [S EXCEPT !.counter = @ + 1, !.minted = Append(@, VarName(S.counter + 1))]
\* the name the last call of generate_variable_name returned
Minted(S) == S.minted[Len(S.minted)]

\* Block::add_line, Block::add_line_s
add_line(S, text) ==
    IF S.panicked THEN S
    ELSE [S EXCEPT !.block.statements = Append(@, Statement(text))]
\* Block::add_block
add_block(S, b) ==
    IF S.panicked THEN S
    ELSE [S EXCEPT !.block.statements = Append(@, BlockLine(b))]
\* todo!()
Panic(S) == [S EXCEPT !.panicked = TRUE]
\* lowering into another block, the counter carried along
Into(S, b) == [S EXCEPT !.block = b]

RECURSIVE get_type_string(_)
get_type_string(t) ==
    CASE t.tag = "Int" -> <<"int">>
      [] t.tag = "String" -> <<"string">>
      [] t.tag = "List" -> <<"vector<">> \o get_type_string(t.elem) \o <<">">>
      [] OTHER -> <<"auto">>

RECURSIVE process_expression(_, _), process_seq(_, _), process_args(_, _, _)

\* `for expr in exprs { process_expression(block, expr); }`
process_seq(S, es) ==
    IF es = <<>> \/ S.panicked THEN S
    ELSE process_seq(process_expression(S, Head(es)), Tail(es))

\* the loops of generate_method_call and generate_list_expr: a name is
\* minted for each element, the element is lowered, the name is collected
process_args(S, es, collected) ==
    IF es = <<>> \/ S.panicked THEN [S |-> S, names |-> collected]
    ELSE LET S1 == generate_variable_name(S)
             temp_var == Minted(S1) IN
         process_args(process_expression(S1, Head(es)), Tail(es),
                      Append(collected, temp_var))

generate_assignment(S, assign) ==
    LET var_type == get_type_string(assign.target.associated_type)
        var_name == UserName(assign.target.value)
        S1 == generate_variable_name(S)
        temp_var == Minted(S1)
        S2 == process_expression(S1, assign.value) IN
    add_line(S2, Decl(var_type, var_name, NameValue(temp_var)))

generate_reassignment(S, assign) ==
    LET var_name == UserName(assign.target)
        S1 == generate_variable_name(S)
        temp_var == Minted(S1)
        S2 == process_expression(S1, assign.value) IN
    add_line(S2, Assign(var_name, NameValue(temp_var)))

generate_method_call(S, call) ==
    LET a == process_args(S, call.args, <<>>) IN
    add_line(a.S, MethodCall(call.method_name, a.names))

generate_print(S, print) ==
    LET S1 == generate_variable_name(S)
        temp_var == Minted(S1)
        S2 == process_expression(S1, print.arg) IN
    add_line(S2, Cout(temp_var))

\* a faulty generate_if: the line that closes the statement is not added
generate_if_mutant(S, if_expr) ==
    LET S1 == generate_variable_name(S)
        cond_var == Minted(S1)
        S2 == process_expression(S1, if_expr.condition)
        T  == process_seq(Into(S2, Block_new), if_expr.then_block)
        S3 == add_block(add_line(Into(T, S2.block), IfOpen(cond_var)), T.block)
        E  == process_seq(Into(S3, Block_new), if_expr.else_block) IN
    IF if_expr.has_else
    THEN add_block(add_line(Into(E, S3.block), ElseOpen), E.block)
    ELSE S3
\* generate_if
generate_if(S, if_expr) ==
    LET S1 == generate_variable_name(S)
        cond_var == Minted(S1)
        S2 == process_expression(S1, if_expr.condition)
        T  == process_seq(Into(S2, Block_new), if_expr.then_block)
        S3 == add_block(add_line(Into(T, S2.block), IfOpen(cond_var)), T.block)
        E  == process_seq(Into(S3, Block_new), if_expr.else_block)
        S4 == IF if_expr.has_else
              THEN add_block(add_line(Into(E, S3.block), ElseOpen), E.block)
              ELSE S3 IN
    add_line(S4, Close)

generate_rep(S, rep) ==
    LET S1 == generate_variable_name(S)
        iter_var == Minted(S1)
        S2 == generate_variable_name(S1)
        count_var == Minted(S2)
        S3 == process_expression(S2, rep.num_iterations)
        S4 == add_line(S3, Decl(<<"int">>, iter_var, LitValue(0)))
        S5 == add_line(S4, Decl(<<"int">>, count_var, NameValue(iter_var)))
        L  == process_seq(Into(S5, Block_new), rep.body)
        S6 == add_line(Into(L, S5.block), ForOpen(iter_var, count_var)) IN
    add_line(add_block(S6, L.block), Close)

generate_binop(S, binop) ==
    LET S1 == generate_variable_name(S)
        left_var == Minted(S1)
        S2 == generate_variable_name(S1)
        right_var == Minted(S2)
        S3 == process_expression(S2, binop.left)
        S4 == process_expression(S3, binop.right)
        S5 == generate_variable_name(S4)
        result_var == Minted(S5) IN
    add_line(S5, Decl(<<"auto">>, result_var, BinValue(binop.op, left_var, right_var)))

generate_unop(S, unop) ==
    LET S1 == generate_variable_name(S)
        expr_var == Minted(S1)
        S2 == process_expression(S1, unop.arg)
        S3 == generate_variable_name(S2)
        result_var == Minted(S3) IN
    add_line(S3, Decl(<<"auto">>, result_var, UnValue(unop.op, expr_var)))

generate_list_expr(S, list) ==
    LET a == process_args(S, list.elems, <<>>)
        S1 == generate_variable_name(a.S)
        result_var == Minted(S1) IN
    add_line(S1, Decl(<<"vector<auto>">>, result_var, ListValue(a.names)))

generate_identifier(S, id) ==
    LET S1 == generate_variable_name(S)
        result_var == Minted(S1) IN
    add_line(S1, Decl(<<"auto">>, result_var, NameValue(UserName(id.value))))

\* the literal arms of process_expression
generate_literal(S, ty, v) ==
    LET S1 == generate_variable_name(S)
        temp == Minted(S1) IN
    add_line(S1, Decl(<<ty>>, temp, v))

process_expression(S, expr) ==
    IF S.panicked THEN S
    ELSE CASE expr.kind = "Integer" -> generate_literal(S, "int", LitValue(expr.value))
           [] expr.kind = "Float"   -> generate_literal(S, "double", TextValue(expr.value))
           [] expr.kind = "String"  -> generate_literal(S, "string", QuotedValue(expr.value))
           [] expr.kind = "AssignmentExpr"   -> generate_assignment(S, expr)
           [] expr.kind = "ReassignmentExpr" -> generate_reassignment(S, expr)
           [] expr.kind = "MethodCallExpr"   -> generate_method_call(S, expr)
           [] expr.kind = "PrintExpr"  -> generate_print(S, expr)
           [] expr.kind = "IfExpr"     -> generate_if(S, expr)
           [] expr.kind = "RepExpr"    -> generate_rep(S, expr)
           [] expr.kind = "Identifier" -> generate_identifier(S, expr)
           [] expr.kind = "ListExpr"   -> generate_list_expr(S, expr)
           [] expr.kind = "BinOp"      -> generate_binop(S, expr)
           [] expr.kind = "UnOp"       -> generate_unop(S, expr)
           [] expr.kind \in {"FunctionDef", "ReturnExpr"} -> Panic(S)
           [] expr.kind = "NoneExpr"   -> S
           [] expr.kind = "Boolean"    -> S

-----------------------------------------------------------------------------
(* Rendering.  A text is the sequence of its pieces; every brace of the    *)
(* text that comes from a format string is a piece of its own.             *)

RECURSIVE Repeat(_, _)
\* str::repeat
Repeat(piece, n) == IF n = 0 THEN <<>> ELSE <<piece>> \o Repeat(piece, n - 1)

RECURSIVE Join(_, _)
\* join of a Vec of texts
Join(texts, sep) ==
    IF texts = <<>> THEN <<>>
    ELSE IF Len(texts) = 1 THEN texts[1]
    ELSE texts[1] \o <<sep>> \o Join(Tail(texts), sep)

NameText(n) == IF DOMAIN n = {"var"} THEN <<"var_", ToString(n.var)>> ELSE <<n.id>>
ValueText(v) ==
    CASE v.rhs = "literal" -> <<ToString(v.value)>>
      [] v.rhs = "text"    -> <<v.value>>
      [] v.rhs = "quoted"  -> <<"\"", v.value, "\"">>
      [] v.rhs = "name"    -> NameText(v.name)
      [] v.rhs = "binop"   -> NameText(v.left) \o <<" ", v.op, " ">> \o NameText(v.right)
      [] v.rhs = "unop"    -> <<v.op>> \o NameText(v.arg)
      [] v.rhs = "list"    ->
            <<"{">> \o Join([i \in 1..Len(v.elems) |-> NameText(v.elems[i])], ", ")
                    \o <<"}">>
\* the String a format! of codegen.rs builds
StatementText(t) ==
    CASE t.stmt = "decl" ->
            t.ty \o <<" ">> \o NameText(t.name) \o <<" = ">> \o ValueText(t.init) \o <<";">>
      [] t.stmt = "assign" -> NameText(t.name) \o <<" = ">> \o ValueText(t.init) \o <<";">>
      [] t.stmt = "cout" -> <<"cout << ">> \o NameText(t.arg) \o <<" << endl;">>
      [] t.stmt = "if" -> <<"if (">> \o NameText(t.cond) \o <<") ", "{">>
      [] t.stmt = "else" -> <<"}", " else ", "{">>
      [] t.stmt = "close" -> <<"}">>
      [] t.stmt = "for" ->
            <<"for(int ">> \o NameText(t.iter) \o <<" = 0; ">> \o NameText(t.iter)
                \o <<" < ">> \o NameText(t.count) \o <<"; ">> \o NameText(t.iter)
                \o <<"++) ", "{">>
      [] t.stmt = "call" ->
            <<t.object, ".", t.method, "(">>
                \o Join([i \in 1..Len(t.args) |-> NameText(t.args[i])], ", ") \o <<");">>

RECURSIVE Block_to_string(_)
\* Block::to_string
Block_to_string(b) ==
    LET line(s) == Repeat(" ", 4 * (b.indent_level + 1))
                      \o (IF s.line = "Block" THEN Block_to_string(s.block)
                                              ELSE StatementText(s.text)) IN
    b.pre_block \o <<"{", "\n">>
        \o Join([i \in 1..Len(b.statements) |-> line(b.statements[i])], "\n")
        \o <<"\n">> \o Repeat(" ", 4 * b.indent_level) \o <<"}">>

\* Program::to_string
Program_to_string(solve_block) ==
    <<"\n#include <bits/stdc++.h>\nusing namespace std;\nusing ll = long long;\n">>
        \o Block_to_string(solve_block)
        \o <<"\nint main() ", "{",
             "\n    cin.tie(0)->sync_with_stdio(false);\n    solve();\n    return 0;\n",
             "}">>

\* generate, entered with the static COUNTER at counter: the lowering of the
\* expressions into solve_block; the text returned is Program_to_string of it
generate(counter, ast) ==
    process_seq(Lowering(Program_new, counter, <<>>, FALSE), ast)


-----------------------------------------------------------------------------
(* The programs generate is called on. *)

Print1 == PrintExpr(Integer(1))
RepCounts == (0..MaxCount) \cup {5}
GenExprs ==
    {Integer(5), FloatLit, StringLit, Boolean, NoneExpr, Identifier("x"),
     AssignmentExpr("x", TInt, Integer(3)),
     AssignmentExpr("x", TInt, BinOp("+", Integer(3), Integer(4))),
     AssignmentExpr("b", TBool, BinOp("==", Integer(1), Integer(1))),
     ReassignmentExpr("x", Integer(5)),
     Print1, PrintExpr(Identifier("x")),
     UnOp("-", Integer(1)), ListExpr(<<Integer(1), Integer(2)>>),
     MethodCallExpr("m", <<Integer(1)>>),
     IfExpr(Boolean, <<Print1>>),
     IfElseExpr(Boolean, <<Print1>>, <<PrintExpr(Integer(0))>>),
     IfExpr(BinOp("==", Integer(1), Integer(1)), <<RepExpr(Integer(1), <<Print1>>)>>),
     RepExpr(Integer(2), <<>>),
     RepExpr(Integer(2), <<IfElseExpr(Boolean, <<Print1>>, <<Print1>>)>>),
     FunctionDef(<<>>, <<>>), ReturnExpr(Integer(1)),
     IfExpr(Boolean, <<ReturnExpr(Integer(1))>>)}
    \cup {RepExpr(Integer(n), <<Print1>>) : n \in RepCounts}
GenFirsts ==
    {AssignmentExpr("x", TInt, Integer(3)),
     AssignmentExpr("x", TInt, BinOp("+", Integer(3), Integer(4)))}
\* blocks of assignment, reassignment and print, and the blocks that nest
\* them in if, if-else and rep to the depth d
LeafBlocks ==
    {<<AssignmentExpr("s", TString, StringLit), Print1>>,
     <<AssignmentExpr("x", TInt, Integer(3)), ReassignmentExpr("x", Integer(5))>>}
RECURSIVE NestedBlocks(_)
NestedBlocks(d) ==
    IF d = 0 THEN LeafBlocks
    ELSE LET inner == NestedBlocks(d - 1) IN
         inner \cup {<<IfExpr(Boolean, b)>> : b \in inner}
               \cup {<<IfElseExpr(BinOp("==", Integer(1), Integer(1)), b, b)>> : b \in inner}
               \cup {<<RepExpr(Integer(1), b), Print1>> : b \in inner}
NestedPrograms == NestedBlocks(MaxDepth)
GenPrograms == {<<>>} \cup {<<e>> : e \in GenExprs}
                      \cup {<<a, e>> : a \in GenFirsts, e \in GenExprs}

-----------------------------------------------------------------------------
(* The generator process: main calls generate; a process that embeds the   *)
(* generator calls it again, and the static COUNTER lives on between calls. *)

InitGen ==
    /\ COUNTER = 0
    /\ run = [op |-> "none"]
    /\ runs = 0

\* generate called on ast, run to its end
Run(ast) ==
    LET S == generate(COUNTER, ast) IN
    /\ COUNTER' = S.counter
    /\ run' = [op |-> "generate", program |-> ast, start |-> COUNTER,
               block |-> S.block, minted |-> S.minted,
               text |-> IF S.panicked THEN <<>> ELSE Program_to_string(S.block),
               outcome |-> IF S.panicked THEN "panicked" ELSE "returned"]
    /\ runs' = runs + 1
    /\ UNCHANGED <<typeckVars, concVars>>

\* one invocation of generate
Generate ==
    /\ runs < MaxRuns
    /\ run.op = "generate" => run.outcome = "returned"
    /\ \E ast \in GenPrograms : Run(ast)

\* the invocation main makes, the first of its process, on a program of
\* nested blocks
GenerateNested ==
    /\ runs = 0
    /\ \E ast \in NestedPrograms : Run(ast)

NextGen == Generate \/ GenerateNested

-----------------------------------------------------------------------------
(* Two invocations of generate on two threads.  COUNTER is a `static mut`  *)
(* read and written without synchronisation: `COUNTER += 1` is a load and  *)
(* a store, and the format! that follows reads COUNTER again or uses the   *)
(* value just stored, as the build decides.  What an invocation does       *)
(* between two calls of generate_variable_name touches only its own Block. *)

Threads == {1, 2}
ConcPrograms == {<<Integer(5)>>, <<Print1>>, <<AssignmentExpr("x", TInt, Integer(3)), Print1>>}

\* the names an invocation mints when the counter is its own and starts at 0
OwnCounterNames(ast) == generate(0, ast).minted

InitConc ==
    /\ COUNTER = 0
    /\ pc = [t \in Threads |-> "idle"]
    /\ reg = [t \in Threads |-> 0]
    /\ job = [t \in Threads |-> <<>>]
    /\ todo = [t \in Threads |-> 0]
    /\ names = [t \in Threads |-> <<>>]

\* generate is entered
Enter(t) ==
    /\ pc[t] = "idle"
    /\ \E ast \in ConcPrograms :
          /\ job' = [job EXCEPT ![t] = ast]
          /\ todo' = [todo EXCEPT ![t] = Len(OwnCounterNames(ast))]
    /\ pc' = [pc EXCEPT ![t] = "load"]
    /\ UNCHANGED <<COUNTER, reg, names, typeckVars, run, runs>>

\* COUNTER += 1, the load
Load(t) ==
    /\ pc[t] = "load"
    /\ reg' = [reg EXCEPT ![t] = COUNTER]
    /\ pc' = [pc EXCEPT ![t] = "store"]
    /\ UNCHANGED <<COUNTER, job, todo, names, typeckVars, run, runs>>

\* COUNTER += 1, the store
Store(t) ==
    /\ pc[t] = "store"
    /\ COUNTER' = reg[t] + 1
    /\ reg' = [reg EXCEPT ![t] = reg[t] + 1]
    /\ pc' = [pc EXCEPT ![t] = "format"]
    /\ UNCHANGED <<job, todo, names, typeckVars, run, runs>>

\* format!("var_{}", COUNTER) and the return of the name
Format(t) ==
    /\ pc[t] = "format"
    /\ \E c \in {COUNTER, reg[t]} :
          names' = [names EXCEPT ![t] = Append(@, VarName(c))]
    /\ todo' = [todo EXCEPT ![t] = @ - 1]
    /\ pc' = [pc EXCEPT ![t] = IF todo[t] = 1 THEN "done" ELSE "load"]
    /\ UNCHANGED <<COUNTER, reg, job, typeckVars, run, runs>>

NextConc == \E t \in Threads : Enter(t) \/ Load(t) \/ Store(t) \/ Format(t)

-----------------------------------------------------------------------------
(* The specifications. *)

Init == InitTypeck /\ InitGen /\ InitConc
Next == NextTypeck
Spec == Init /\ [][Next]_vars
SpecGen == Init /\ [][NextGen]_vars
SpecConc == Init /\ [][NextConc]_vars


-----------------------------------------------------------------------------
(* Properties of the type checker. *)

IsCall(kind) == last.op = "check_expr" /\ last.expr.kind = kind
\* the kind of error the last call returned, "None" when it returned Ok
LastError == IF last.res.ok THEN "None" ELSE ErrorKind(last.res.message)
\* the symbol-table entry of a name: absent, or present with its type
Entry(tab, n) == IF n \in DOMAIN tab THEN <<tab[n]>> ELSE <<>>
\* the check of the value of the (re)assignment last checked
LastValue == check_expr(last.pre, last.expr.value)

\* an AssignmentExpr or a parameter somewhere in e binds the name n
RECURSIVE Binds(_, _), BindsAny(_, _)
Binds(e, n) ==
    CASE e.kind = "AssignmentExpr" -> e.target.value = n \/ Binds(e.value, n)
      [] e.kind \in {"ReassignmentExpr", "ReturnExpr"} -> Binds(e.value, n)
      [] e.kind = "BinOp" -> Binds(e.left, n) \/ Binds(e.right, n)
      [] e.kind \in {"UnOp", "PrintExpr"} -> Binds(e.arg, n)
      [] e.kind = "ListExpr" -> BindsAny(e.elems, n)
      [] e.kind = "IfExpr" -> \/ Binds(e.condition, n)
                              \/ BindsAny(e.then_block, n)
                              \/ BindsAny(e.else_block, n)
      [] e.kind = "RepExpr" -> Binds(e.num_iterations, n) \/ BindsAny(e.body, n)
      [] e.kind = "FunctionDef" -> \/ \E i \in 1..Len(e.args) : e.args[i].value = n
                                   \/ BindsAny(e.body, n)
      [] OTHER -> FALSE
BindsAny(es, n) == \E i \in 1..Len(es) : Binds(es[i], n)

\* C1 as stated: a ReassignmentExpr whose target is not in the symbol table
\* makes check_expr return UndefinedVariable, whatever its value expression.
C1_Original ==
    (IsCall("ReassignmentExpr") /\ last.expr.target \notin DOMAIN last.pre)
        => LastError = "UndefinedVariable"

\* C1 amended: for a ReassignmentExpr whose target is not in the symbol
\* table, check_expr returns the error of the value expression when that
\* fails to check, and UndefinedVariable when the value expression checks
\* and leaves the target unbound; it returns Ok only when the value
\* expression itself binds the target.
C1_ReassignUndefined ==
    (IsCall("ReassignmentExpr") /\ last.expr.target \notin DOMAIN last.pre)
        => /\ ~LastValue.res.ok => last.res = LastValue.res
           /\ (LastValue.res.ok /\ last.expr.target \notin DOMAIN LastValue.tab)
                 => LastError = "UndefinedVariable"
           /\ last.res.ok => Binds(last.expr.value, last.expr.target)
           /\ symbol_table = LastValue.tab

\* C1 witness: a reassignment of the unbound x to a value that checks was
\* answered with UndefinedVariable.
C1_Witness ==
    /\ IsCall("ReassignmentExpr")
    /\ last.expr.target \notin DOMAIN last.pre
    /\ last.expr.value = Identifier("y")
    /\ "y" \in DOMAIN last.pre
    /\ LastError = "UndefinedVariable"

\* the cases of C2: the value checks, to another type than the target's
AssignMismatch ==
    /\ IsCall("AssignmentExpr")
    /\ LastValue.res.ok
    /\ LastValue.res.ty # last.expr.target.associated_type
ReassignMismatch(tab) ==
    /\ IsCall("ReassignmentExpr")
    /\ LastValue.res.ok
    /\ last.expr.target \in DOMAIN tab
    /\ LastValue.res.ty # tab[last.expr.target]
TargetName ==
    IF last.expr.kind = "AssignmentExpr" THEN last.expr.target.value ELSE last.expr.target

\* C2 as stated: an assignment or reassignment whose value checks to another
\* type than the target's declared (bound) type returns TypeMismatch and
\* leaves the target's symbol-table entry as it was before the call.
C2_Original ==
    (AssignMismatch \/ ReassignMismatch(last.pre))
        => /\ LastError = "TypeMismatch"
           /\ Entry(symbol_table, TargetName) = Entry(last.pre, TargetName)

\* C2 amended: an assignment whose value checks to another type than the
\* declared one, or a reassignment whose value checks to another type than
\* the one the target is bound to once the value has been checked, returns
\* TypeMismatch, and the symbol table is the one the check of the value left:
\* the target's entry is as before the call unless the value expression
\* itself binds the target name.
C2_MismatchKeepsTable ==
    (AssignMismatch \/ ReassignMismatch(LastValue.tab))
        => /\ LastError = "TypeMismatch"
           /\ symbol_table = LastValue.tab
           /\ ~Binds(last.expr.value, TargetName)
                 => Entry(symbol_table, TargetName) = Entry(last.pre, TargetName)

\* C2 witness: a binding of a name not in the table to a value of another
\* type failed, and the name is still not in the table.
C2_Witness ==
    /\ AssignMismatch
    /\ ~Binds(last.expr.value, TargetName)
    /\ TargetName \notin DOMAIN last.pre
    /\ "y" \in DOMAIN last.pre
    /\ LastError = "TypeMismatch"
    /\ symbol_table = last.pre

\* C3: when check_expr on a FunctionDef returns Ok the symbol table is the
\* table before the call, so a later expression finds a name that was not
\* bound outside the function undefined and any other name with its outer
\* type; check_program on the definition followed by a reference agrees.
C3_FunctionScope ==
    /\ (IsCall("FunctionDef") /\ last.res.ok)
          => /\ symbol_table = last.pre
             /\ \A n \in Names :
                   check_expr(symbol_table, Identifier(n)).res =
                       IF n \in DOMAIN last.pre THEN Ok(last.pre[n]) ELSE Err(MsgUndefined)
    /\ ( /\ last.op = "check_program"
         /\ last.expr[1].kind = "FunctionDef"
         /\ last.expr[2].kind = "Identifier"
         /\ check_expr(last.pre, last.expr[1]).res.ok )
          => last.res = IF last.expr[2].value \in DOMAIN last.pre
                        THEN Ok(TNone) ELSE Err(MsgUndefined)

\* C3 witness: a definition with a parameter x and a body that binds y
\* checked, on a table that binds x to another type and does not bind y.
C3_Witness ==
    /\ IsCall("FunctionDef")
    /\ last.res.ok
    /\ last.expr.args = <<TypedIdentifier("x", TInt)>>
    /\ last.expr.body = <<AssignmentExpr("y", TInt, Identifier("x"))>>
    /\ "y" \notin DOMAIN last.pre
    /\ "x" \in DOMAIN last.pre
    /\ last.pre["x"] = TString

\* the types the operands of the BinOp last checked check to
LeftOperand  == check_expr(last.pre, last.expr.left)
RightOperand == check_expr(LeftOperand.tab, last.expr.right)

-----------------------------------------------------------------------------
(* Properties of the code generator. *)

Generated == run.op = "generate"
Returned  == Generated /\ run.outcome = "returned"
\* check_program on a new TypeChecker accepts the program of the last run
Accepted  == Generated /\ check_program(EmptyTable, run.program).res.ok

IsPrefix(s, t) == Len(s) <= Len(t) /\ \A i \in 1..Len(s) : s[i] = t[i]

\* C6 as stated: each invocation of generate owns its counter, so the names
\* it mints for its program are those of a first invocation in the process,
\* whatever ran before it or runs beside it, and it mints no name twice.
C6_Original ==
    \A t \in Threads :
        /\ IsPrefix(names[t], OwnCounterNames(job[t]))
        /\ \A i, j \in 1..Len(names[t]) : i # j => names[t][i] # names[t][j]

\* the arms of process_expression that are todo!()
RECURSIVE HasNoLowering(_), AnyHasNoLowering(_)
HasNoLowering(e) ==
    CASE e.kind \in {"FunctionDef", "ReturnExpr"} -> TRUE
      [] e.kind \in {"AssignmentExpr", "ReassignmentExpr"} -> HasNoLowering(e.value)
      [] e.kind = "BinOp" -> HasNoLowering(e.left) \/ HasNoLowering(e.right)
      [] e.kind \in {"UnOp", "PrintExpr"} -> HasNoLowering(e.arg)
      [] e.kind = "ListExpr" -> AnyHasNoLowering(e.elems)
      [] e.kind = "MethodCallExpr" -> AnyHasNoLowering(e.args)
      [] e.kind = "IfExpr" -> \/ HasNoLowering(e.condition)
                              \/ AnyHasNoLowering(e.then_block)
                              \/ AnyHasNoLowering(e.else_block)
      [] e.kind = "RepExpr" -> HasNoLowering(e.num_iterations) \/ AnyHasNoLowering(e.body)
      [] OTHER -> FALSE
AnyHasNoLowering(es) == \E i \in 1..Len(es) : HasNoLowering(es[i])

\* C7 as stated: for a program check_program accepts generate does not abort
\* the process: it returns normally, and for a program with a construct it
\* has no lowering for it returns an error to its caller.
C7_Original ==
    Accepted =>
        /\ run.outcome # "panicked"
        /\ AnyHasNoLowering(run.program) => run.outcome = "unsupported"

\* the lines of a block that are statements of the given format
IsStmt(l, format) == l.line = "Statement" /\ l.text.stmt = format

\* the integer a name holds before line k of a block, -1 when no earlier
\* line of the block gives it one
RECURSIVE IntValue(_, _, _)
IntValue(lines, k, n) ==
    LET defs == {j \in 1..(k - 1) : /\ lines[j].line = "Statement"
                                    /\ lines[j].text.stmt \in {"decl", "assign"}
                                    /\ lines[j].text.name = n} IN
    IF defs = {} THEN -1
    ELSE LET j == CHOOSE d \in defs : \A o \in defs : o <= d
             v == lines[j].text.init IN
         CASE v.rhs = "literal" -> v.value
           [] v.rhs = "name" -> IntValue(lines, j, v.name)
           [] OTHER -> -1

\* how often the loop opened on line k runs the block that follows:
\* the counter starts at 0, steps by one and is compared with < to the bound
Iterations(lines, k) ==
    LET bound == IntValue(lines, k, lines[k].text.count) IN
    IF bound > 0 THEN bound ELSE 0

\* the last run lowered the one-expression program `rep (n) { ... }`
RepOfLiteral ==
    /\ Returned
    /\ Len(run.program) = 1
    /\ run.program[1].kind = "RepExpr"
    /\ run.program[1].num_iterations.kind = "Integer"

\* C8 as stated: for a rep whose count is the literal n the statements
\* emitted are a loop whose bound holds the lowered count, and the block
\* that follows the loop header runs n times.
C8_Original ==
    RepOfLiteral =>
        LET lines == run.block.statements
            n == run.program[1].num_iterations.value IN
        \E k \in 1..(Len(lines) - 1) :
            /\ IsStmt(lines[k], "for")
            /\ lines[k + 1].line = "Block"
            /\ IntValue(lines, k, lines[k].text.count) = n
            /\ Iterations(lines, k) = n

\* the names read by the statements that consume the value of a
\* sub-expression (a declaration or an assignment of a name or of a binary or
\* unary operation, a print, an if), and the names a statement declares
ValueReads(v) ==
    CASE v.rhs = "name" -> {v.name}
      [] v.rhs = "binop" -> {v.left, v.right}
      [] v.rhs = "unop" -> {v.arg}
      [] OTHER -> {}
Reads(text) ==
    CASE text.stmt \in {"decl", "assign"} -> ValueReads(text.init)
      [] text.stmt = "cout" -> {text.arg}
      [] text.stmt = "if" -> {text.cond}
      [] OTHER -> {}
Declares(text) == IF text.stmt = "decl" THEN {text.name} ELSE {}
Synthetic(ns) == {n \in ns : DOMAIN n = {"var"}}

\* every var_N a line of the block reads is declared by an earlier line of
\* the block or of a block around it
RECURSIVE DeclaredBeforeUse(_, _, _)
DeclaredBeforeUse(lines, k, declared) ==
    IF k > Len(lines) THEN TRUE
    ELSE IF lines[k].line = "Block"
         THEN /\ DeclaredBeforeUse(lines[k].block.statements, 1, declared)
              /\ DeclaredBeforeUse(lines, k + 1, declared)
         ELSE /\ Synthetic(Reads(lines[k].text)) \subseteq declared
              /\ DeclaredBeforeUse(lines, k + 1, declared \cup Declares(lines[k].text))

\* C9 as stated: in the statements emitted for a type-checked program every
\* var_N a statement reads was declared by an earlier statement of the same
\* or of an enclosing block.
C9_Original ==
    (Accepted /\ Returned) => DeclaredBeforeUse(run.block.statements, 1, {})

\* every block nested in b is one level deeper than the block that holds it
RECURSIVE IndentsNest(_)
IndentsNest(b) ==
    \A k \in 1..Len(b.statements) :
        b.statements[k].line = "Block" =>
            /\ b.statements[k].block.indent_level = b.indent_level + 1
            /\ IndentsNest(b.statements[k].block)

\* C10 as stated: in the block tree generate builds every nested Block has
\* an indent_level one greater than that of the Block it is added to.
C10_Original == Returned => IndentsNest(run.block)

-----------------------------------------------------------------------------
(* The symbol table after a FunctionDef that fails to check. *)

\* the last call was check_expr on a FunctionDef and returned an error: an
\* expression of the body failed to check (the arm has no other error)
FunctionDefFailed == IsCall("FunctionDef") /\ ~last.res.ok
\* the names the parameters of the FunctionDef last checked bind
Parameters == {last.expr.args[i].value : i \in 1..Len(last.expr.args)}

\* C12 as stated: when check_expr on a FunctionDef returns an error because
\* an expression of the body fails to check, the symbol table is the snapshot
\* taken before the body was entered: a parameter, or a name the body bound
\* before the failing expression, is in the table afterwards only as the
\* snapshot had it.
C12_Original ==
    FunctionDefFailed
        => /\ symbol_table = last.pre
           /\ \A n \in Names :
                 (n \in Parameters \/ BindsAny(last.expr.body, n))
                     => Entry(symbol_table, n) = Entry(last.pre, n)

-----------------------------------------------------------------------------
(* The braces of the text generate returns. *)

\* the statements and value expressions C11 is about
RECURSIVE Structured(_), AllStructured(_)
Structured(e) ==
    CASE e.kind \in {"Integer", "Float", "String", "Boolean", "Identifier"} -> TRUE
      [] e.kind \in {"AssignmentExpr", "ReassignmentExpr"} -> Structured(e.value)
      [] e.kind = "BinOp" -> Structured(e.left) /\ Structured(e.right)
      [] e.kind \in {"UnOp", "PrintExpr"} -> Structured(e.arg)
      [] e.kind = "IfExpr" -> /\ Structured(e.condition)
                              /\ AllStructured(e.then_block)
                              /\ AllStructured(e.else_block)
      [] e.kind = "RepExpr" -> Structured(e.num_iterations) /\ AllStructured(e.body)
      [] OTHER -> FALSE
AllStructured(es) == \A i \in 1..Len(es) : Structured(es[i])

\* how deep if and rep blocks nest in an expression
RECURSIVE Depth(_), MaxDepthOf(_)
Depth(e) ==
    CASE e.kind = "IfExpr" ->
            LET t == MaxDepthOf(e.then_block)
                f == MaxDepthOf(e.else_block) IN
            1 + (IF t >= f THEN t ELSE f)
      [] e.kind = "RepExpr" -> 1 + MaxDepthOf(e.body)
      [] OTHER -> 0
MaxDepthOf(es) ==
    IF es = <<>> THEN 0
    ELSE LET h == Depth(Head(es))
             t == MaxDepthOf(Tail(es)) IN
         IF h >= t THEN h ELSE t

\* opening braces less closing braces among the first n pieces of a text
Open(text, n) ==
    Cardinality({i \in 1..n : text[i] = "{"}) - Cardinality({i \in 1..n : text[i] = "}"})
BraceBalanced(text) ==
    /\ \A n \in 0..Len(text) : Open(text, n) >= 0
    /\ Open(text, Len(text)) = 0

\* a well-typed program of the constructs of C11, and generate has returned
StructuredRun == Returned /\ Accepted /\ AllStructured(run.program)

\* C11: for a well-typed program built from assignment, reassignment, print,
\* if (with or without else) and rep, nested to any depth, the text generate
\* returns is brace-balanced: read left to right the closing braces never
\* outnumber the opening braces, and the two counts are equal at the end.
C11_BraceBalanced == StructuredRun => BraceBalanced(run.text)

\* C11 witness: generate returned the text of a well-typed program in which
\* an if with an else nests blocks to the deepest nesting the generator is
\* given, and every block of the nesting was open at once.
C11_Witness ==
    /\ StructuredRun
    /\ Len(run.program) = 1
    /\ run.program[1].kind = "IfExpr"
    /\ run.program[1].has_else
    /\ MaxDepthOf(run.program) = MaxDepth
    /\ \E n \in 1..Len(run.text) : Open(run.text, n) = 1 + 2 * MaxDepth

=============================================================================
